---- MODULE Spec2Model ----
(***************************************************************************)
(* Model of the chunk / parse / merge / metrics pipeline of analyzer.py.   *)
(*                                                                         *)
(* A Python str is a sequence of one-character strings, so that split,     *)
(* strip and the regular expressions of the parser are computed character  *)
(* by character, as the code computes them.                                *)
(***************************************************************************)
EXTENDS Integers, Sequences, FiniteSets, TLC

VARIABLES pc,            \* position of the operation under study
          text,          \* chunk_document / analyze_document: the input text
          chunk_size,    \* chunk_document: the chunk_size argument
          chunks,        \* chunk_document: the returned list
          response_text, \* process_analysis_response: the content argument
          parsed,        \* process_analysis_response: the returned mapping
          responses,     \* per chunk, the response its result was made from:
                         \* [ok, text], ok false for a failed LLM call
          merge_in,      \* merge_analysis_results: the results_list argument
          merge_out,     \* merge_analysis_results: [raised, value]
          metrics_in,    \* calculate_metrics: the argument
          metrics,       \* calculate_metrics: the returned metrics
          all_results,   \* analyze_document: the list of chunk results
          calls,         \* analyze_document: the LLM calls made so far, in
                         \* order: [chunk, kind]
          returned,      \* analyze_document: the mapping it returns
          phrase_in,     \* is_financial_term: the phrase argument
          financial,     \* is_financial_term: the returned flag
          outcome_in,    \* analyze_chunk: what client.messages.create does
          chunk_out,     \* analyze_chunk: the returned mapping
          merge_how      \* how a list of chunk results was merged: in another
                         \* order, or with a part of it merged first

vars == <<pc, text, chunk_size, chunks, response_text, parsed, responses, merge_in,
          merge_out, metrics_in, metrics, all_results, calls, returned,
          phrase_in, financial, outcome_in, chunk_out, merge_how>>

----------------------------------------------------------------------------
(* Bounds of the model *)

MaxTextLen == 8
MaxChunkSize == 4
MaxPieces == 3
MaxChunks == 2
MaxPhrases == 2
MaxDocParas == 3

----------------------------------------------------------------------------
(* str helpers *)

NL == "\n"

\* the paragraph delimiter '\n\n'
ParaSep == <<NL, NL>>

Min(S) == CHOOSE x \in S : \A y \in S : x <= y

\* s[i:i+len(p)] == p, 1-based
StartsWithAt(s, i, p) ==
    /\ i >= 1
    /\ i + Len(p) - 1 <= Len(s)
    /\ \A k \in 1..Len(p) : s[i + k - 1] = p[k]

\* str.find(p, from): the least index >= from at which p occurs, 0 when none
Find(s, p, from) ==
    LET hits == {i \in from..(Len(s) - Len(p) + 1) : StartsWithAt(s, i, p)}
    IN  IF hits = {} THEN 0 ELSE Min(hits)

\* s[i:] , 1-based
From(s, i) == SubSeq(s, i, Len(s))

\* str.split(sep): leftmost non-overlapping occurrences, always >= 1 piece
RECURSIVE Split(_, _)
Split(s, sep) ==
    LET i == Find(s, sep, 1)
    IN  IF i = 0 THEN <<s>>
        ELSE <<SubSeq(s, 1, i - 1)>> \o Split(From(s, i + Len(sep)), sep)

\* all strings over alphabet A of length <= n
StringsUpTo(A, n) == UNION {[1..k -> A] : k \in 0..n}

RECURSIVE Concat(_)
Concat(ss) == IF ss = <<>> THEN <<>> ELSE Head(ss) \o Concat(Tail(ss))

----------------------------------------------------------------------------
(* chunk_document *)

\* chunk_loop with the paragraph that overflows the buffer lost
RECURSIVE chunk_loop_drop(_, _, _, _)
chunk_loop_drop(paragraphs, size, acc, current_chunk) ==
    IF paragraphs = <<>>
    THEN IF current_chunk # <<>> THEN Append(acc, current_chunk) ELSE acc
    ELSE LET para == Head(paragraphs)
         IN  IF Len(current_chunk) + Len(para) < size
             THEN chunk_loop_drop(Tail(paragraphs), size, acc,
                                  current_chunk \o para \o ParaSep)
             ELSE chunk_loop_drop(Tail(paragraphs), size,
                                  Append(acc, current_chunk), <<>>)

\* chunk_loop without the append of the last buffer
RECURSIVE chunk_loop_no_final(_, _, _, _)
chunk_loop_no_final(paragraphs, size, acc, current_chunk) ==
    IF paragraphs = <<>> THEN acc
    ELSE LET para == Head(paragraphs)
         IN  IF Len(current_chunk) + Len(para) < size
             THEN chunk_loop_no_final(Tail(paragraphs), size, acc,
                                      current_chunk \o para \o ParaSep)
             ELSE chunk_loop_no_final(Tail(paragraphs), size,
                                      Append(acc, current_chunk), para \o ParaSep)

\* chunk_loop testing the length of the buffer alone, not that of the paragraph
RECURSIVE chunk_loop_ignore_para(_, _, _, _)
chunk_loop_ignore_para(paragraphs, size, acc, current_chunk) ==
    IF paragraphs = <<>>
    THEN IF current_chunk # <<>> THEN Append(acc, current_chunk) ELSE acc
    ELSE LET para == Head(paragraphs)
         IN  IF Len(current_chunk) < size
             THEN chunk_loop_ignore_para(Tail(paragraphs), size, acc,
                                         current_chunk \o para \o ParaSep)
             ELSE chunk_loop_ignore_para(Tail(paragraphs), size,
                                         Append(acc, current_chunk), para \o ParaSep)

RECURSIVE chunk_loop(_, _, _, _)
chunk_loop(paragraphs, size, acc, current_chunk) ==
    IF paragraphs = <<>>
    THEN IF current_chunk # <<>> THEN Append(acc, current_chunk) ELSE acc
    ELSE LET para == Head(paragraphs)
         IN  IF Len(current_chunk) + Len(para) < size
             THEN chunk_loop(Tail(paragraphs), size, acc,
                             current_chunk \o para \o ParaSep)
             ELSE chunk_loop(Tail(paragraphs), size,
                             Append(acc, current_chunk), para \o ParaSep)

chunk_document(t, size) == chunk_loop(Split(t, ParaSep), size, <<>>, <<>>)

----------------------------------------------------------------------------
(* More str helpers, used by the response parser *)

DQ == "\""

\* the characters str.strip() removes and \s matches, among those of the model
WhiteSpace == {" ", NL, "\t", "\r"}

Max(S) == CHOOSE x \in S : \A y \in S : x >= y

\* str.strip()
Strip(s) ==
    LET keep == {i \in 1..Len(s) : s[i] \notin WhiteSpace}
    IN  IF keep = {} THEN <<>> ELSE SubSeq(s, Min(keep), Max(keep))

\* the first index >= i that holds no whitespace, Len(s) + 1 when none: where a
\* greedy \s* started at i stops
SkipWs(s, i) ==
    LET stops == {j \in i..Len(s) : s[j] \notin WhiteSpace}
    IN  IF stops = {} THEN Max({i, Len(s) + 1}) ELSE Min(stops)

UpperCase == <<"A", "B", "C", "D", "E", "F", "G", "H", "I", "J", "K", "L", "M",
               "N", "O", "P", "Q", "R", "S", "T", "U", "V", "W", "X", "Y", "Z">>
LowerCase == <<"a", "b", "c", "d", "e", "f", "g", "h", "i", "j", "k", "l", "m",
               "n", "o", "p", "q", "r", "s", "t", "u", "v", "w", "x", "y", "z">>

\* str.lower()
Lower(s) ==
    [i \in 1..Len(s) |->
        IF \E k \in 1..26 : UpperCase[k] = s[i]
        THEN LowerCase[CHOOSE k \in 1..26 : UpperCase[k] = s[i]]
        ELSE s[i]]

\* p in s
Contains(s, p) == Find(s, p, 1) # 0

\* '$' of a regular expression without re.MULTILINE, at index e (one past the
\* match): the end of the string, or just before a newline that ends it
AtEnd(s, e) == e = Len(s) + 1 \/ (e = Len(s) /\ s[e] = NL)

----------------------------------------------------------------------------
(* is_financial_term *)

financial_keywords == <<
    <<"f", "e", "e">>,
    <<"c", "o", "s", "t">>,
    <<"p", "r", "i", "c", "e">>,
    <<"p", "a", "y", "m", "e", "n", "t">>,
    <<"c", "h", "a", "r", "g", "e">>,
    <<"r", "e", "f", "u", "n", "d">>,
    <<"c", "r", "e", "d", "i", "t">>,
    <<"b", "i", "l", "l", "i", "n", "g">>,
    <<"s", "u", "b", "s", "c", "r", "i", "p", "t", "i", "o", "n">>,
    <<"m", "o", "n", "e", "y">>,
    <<"f", "i", "n", "a", "n", "c", "i", "a", "l">>,
    <<"d", "o", "l", "l", "a", "r">>,
    <<"r", "a", "t", "e">>,
    <<"e", "x", "p", "e", "n", "s", "e">>,
    <<"p", "a", "y">>,
    <<"c", "o", "m", "p", "e", "n", "s", "a", "t", "i", "o", "n">>,
    <<"p", "e", "n", "a", "l", "t", "y">>,
    <<"f", "i", "n", "e">>
>>

\* is_financial_term without phrase.lower()
is_financial_term_case_sensitive(phrase) ==
    \E k \in 1..Len(financial_keywords) : Contains(phrase, financial_keywords[k])

\* is_financial_term testing phrase.lower() in financial_keywords
is_financial_term_exact(phrase) ==
    \E k \in 1..Len(financial_keywords) : Lower(phrase) = financial_keywords[k]

is_financial_term(phrase) ==
    \E k \in 1..Len(financial_keywords) :
        Contains(Lower(phrase), financial_keywords[k])

----------------------------------------------------------------------------
(* Configuration: ANALYSIS_CATEGORIES and risk_levels *)

\* The model keeps two of the 32 categories of the list; the parser and the
\* merger run the same code for every category of the list.
ANALYSIS_CATEGORIES == <<"Payment Terms", "Force Majeure">>

Categories == {ANALYSIS_CATEGORIES[k] : k \in 1..Len(ANALYSIS_CATEGORIES)}

\* the characters of a category name
CategoryChars(category) ==
    CASE category = "Payment Terms" -> <<"P", "a", "y", "m", "e", "n", "t", " ", "T", "e", "r", "m", "s">>
      [] category = "Force Majeure" -> <<"F", "o", "r", "c", "e", " ", "M", "a", "j", "e", "u", "r", "e">>

\* risk_levels listed from the highest to the lowest
risk_levels_reversed == <<"High", "Medium", "Low", "None">>

risk_levels == <<"None", "Low", "Medium", "High">>

\* list.index: the position in risk_levels, 0 standing for the ValueError of a
\* value that is not in the list
RiskIndex(level) ==
    IF \E k \in 1..Len(risk_levels) : risk_levels[k] = level
    THEN CHOOSE k \in 1..Len(risk_levels) : risk_levels[k] = level
    ELSE 0

----------------------------------------------------------------------------
(* process_analysis_response *)

Hashes == <<"#", "#", "#">>
LabelRisk == <<"R", "I", "S", "K", ":">>
LabelFindings == <<"F", "I", "N", "D", "I", "N", "G", "S", ":">>
LabelQuotes == <<"Q", "U", "O", "T", "E", "S", ":">>

NoSpecificFindings == <<"N", "o", " ", "s", "p", "e", "c", "i", "f", "i", "c", " ", "f", "i", "n", "d", "i", "n", "g", "s", ".">>
NotMentioned == <<"N", "o", "t", " ", "m", "e", "n", "t", "i", "o", "n", "e", "d", " ", "i", "n", " ", "d", "o", "c", "u", "m", "e", "n", "t", ".">>

\* the alternatives of (High|Medium|Low|None), in the order the pattern lists them
RiskTokens == <<[chars |-> <<"H", "i", "g", "h">>, level |-> "High"],
                [chars |-> <<"M", "e", "d", "i", "u", "m">>, level |-> "Medium"],
                [chars |-> <<"L", "o", "w">>, level |-> "Low"],
                [chars |-> <<"N", "o", "n", "e">>, level |-> "None"]>>

\* the level named at index j of s, "" when none of the alternatives is there
RiskTokenAt(s, j) ==
    LET ks == {k \in 1..Len(RiskTokens) : StartsWithAt(s, j, RiskTokens[k].chars)}
    IN  IF ks = {} THEN "" ELSE RiskTokens[Min(ks)].level

\* re.search(r"RISK:\s*(High|Medium|Low|None)", s): group(1) of the leftmost
\* match, "" when there is no match. The alternatives start with a letter, so
\* the greedy \s* can only match with all the whitespace taken.
risk_match(s) ==
    LET hits == {i \in 1..Len(s) :
                    /\ StartsWithAt(s, i, LabelRisk)
                    /\ RiskTokenAt(s, SkipWs(s, i + Len(LabelRisk))) # ""}
    IN  IF hits = {} THEN ""
        ELSE RiskTokenAt(s, SkipWs(s, Min(hits) + Len(LabelRisk)))

\* label\s*(.+?)(?=stop|$) with re.DOTALL, searched in s: [found, group].
\* The leftmost label followed by at least one character matches; \s* takes all
\* the whitespace that leaves the group one character; the lazy group then runs
\* to the first later index where stop or the end of the string follows.
lazy_match(s, label, stop) ==
    LET i == Find(s, label, 1)
        j == i + Len(label)
    IN  IF i = 0 \/ j > Len(s) THEN [found |-> FALSE, group |-> <<>>]
        ELSE LET k == Min({SkipWs(s, j), Len(s)})
                 ends == {e \in (k + 1)..(Len(s) + 1) :
                             StartsWithAt(s, e, stop) \/ AtEnd(s, e)}
             IN  [found |-> TRUE, group |-> SubSeq(s, k, Min(ends) - 1)]

\* re.search(r"FINDINGS:\s*(.+?)(?=QUOTES:|$)", s, re.DOTALL)
findings_match(s) == lazy_match(s, LabelFindings, LabelQuotes)

\* re.search(r"QUOTES:\s*(.+?)(?=###|$)", s, re.DOTALL)
quotes_match(s) == lazy_match(s, LabelQuotes, Hashes)

\* re.findall(r'"([^"]*)"', s): the texts between successive pairs of quotes
RECURSIVE findall_quoted(_)
findall_quoted(s) ==
    LET a == Find(s, <<DQ>>, 1)
        b == IF a = 0 THEN 0 ELSE Find(s, <<DQ>>, a + 1)
    IN  IF a = 0 \/ b = 0 THEN <<>>
        ELSE <<SubSeq(s, a + 1, b - 1)>> \o findall_quoted(From(s, b + 1))

\* [{'text': quote.strip(), 'is_financial': is_financial_term(quote)}
\*  for quote in quotes if quote.strip()]
RECURSIVE phrases_of(_)
phrases_of(quotes) ==
    IF quotes = <<>> THEN <<>>
    ELSE LET quote == Head(quotes)
         IN  (IF Strip(quote) # <<>>
              THEN <<[text |-> Strip(quote),
                      is_financial |-> is_financial_term(quote)]>>
              ELSE <<>>) \o phrases_of(Tail(quotes))

\* process_category looking for the bare category name, not for the marker
process_category_by_name(content, category) ==
    LET sections == Split(content, CategoryChars(category))
    IN  IF Len(sections) > 1
        THEN LET section_content == Strip(Split(sections[2], Hashes)[1])
                 risk == risk_match(section_content)
                 findings == findings_match(section_content)
                 quotes == quotes_match(section_content)
             IN  [risk_level |-> IF risk # "" THEN risk ELSE "Low",
                  findings |-> IF findings.found THEN Strip(findings.group)
                               ELSE NoSpecificFindings,
                  quoted_phrases |->
                      IF quotes.found
                      THEN phrases_of(findall_quoted(Strip(quotes.group)))
                      ELSE <<>>]
        ELSE [risk_level |-> "None",
              findings |-> NotMentioned,
              quoted_phrases |-> <<>>]

\* the body of the loop of process_analysis_response for one category
process_category(content, category) ==
    LET section_marker == Hashes \o CategoryChars(category) \o Hashes
        sections == Split(content, section_marker)
    IN  IF Len(sections) > 1
        THEN LET section_content == Strip(Split(sections[2], Hashes)[1])
                 risk == risk_match(section_content)
                 findings == findings_match(section_content)
                 quotes == quotes_match(section_content)
             IN  [risk_level |-> IF risk # "" THEN risk ELSE "Low",
                  findings |-> IF findings.found THEN Strip(findings.group)
                               ELSE NoSpecificFindings,
                  quoted_phrases |->
                      IF quotes.found
                      THEN phrases_of(findall_quoted(Strip(quotes.group)))
                      ELSE <<>>]
        ELSE [risk_level |-> "None",
              findings |-> NotMentioned,
              quoted_phrases |-> <<>>]

\* process_loop without the else branch: a category whose marker is absent gets
\* no entry
RECURSIVE process_loop_no_default(_, _, _)
process_loop_no_default(content, categories, analysis_results) ==
    IF categories = <<>> THEN analysis_results
    ELSE LET category == Head(categories)
             marker == Hashes \o CategoryChars(category) \o Hashes
             entry == (category :> process_category(content, category))
         IN  process_loop_no_default(content, Tail(categories),
                 IF Contains(content, marker) THEN entry @@ analysis_results
                 ELSE analysis_results)

\* the loop over ANALYSIS_CATEGORIES: analysis_results[category] = ... for each
\* category in turn. No operation of the try block raises for a str, so the
\* except branch of the loop (risk_level 'Error') is never taken.
RECURSIVE process_loop(_, _, _)
process_loop(content, categories, analysis_results) ==
    IF categories = <<>> THEN analysis_results
    ELSE LET category == Head(categories)
             entry == (category :> process_category(content, category))
         IN  process_loop(content, Tail(categories), entry @@ analysis_results)

process_analysis_response(content) ==
    process_loop(content, ANALYSIS_CATEGORIES, <<>>)

----------------------------------------------------------------------------
(* calculate_metrics *)

LongestPhraseList(analysis_results) ==
    Max({0} \cup {Len(analysis_results[key].quoted_phrases) : key \in DOMAIN analysis_results})

\* the number of (entry, phrase) pairs of analysis_results whose is_financial
\* flag is flag
CountPhrases(analysis_results, flag) ==
    Cardinality({<<key, i>> \in (DOMAIN analysis_results) \X (1..LongestPhraseList(analysis_results)) :
                    /\ i <= Len(analysis_results[key].quoted_phrases)
                    /\ analysis_results[key].quoted_phrases[i].is_financial = flag})

\* A metric (x / y) * 100 is kept as the exact fraction num / den.
calculate_metrics(analysis_results) ==
    LET total_categories == Len(ANALYSIS_CATEGORIES)
        risky_categories ==
            Cardinality({key \in DOMAIN analysis_results :
                            analysis_results[key].risk_level \in {"High", "Medium"}})
        financial_terms == CountPhrases(analysis_results, TRUE)
        unusual_terms == CountPhrases(analysis_results, FALSE)
    IN  [complexity_score |->
             [num |-> risky_categories * 100, den |-> total_categories],
         financial_impact |->
             [num |-> financial_terms * 100,
              den |-> Max({1, financial_terms + unusual_terms})],
         unusual_terms_ratio |->
             [num |-> unusual_terms * 100,
              den |-> Max({1, Cardinality(DOMAIN analysis_results)})]]

----------------------------------------------------------------------------
(* merge_analysis_results *)

\* '\n'.join(list)
RECURSIVE JoinLines(_)
JoinLines(list) ==
    IF list = <<>> THEN <<>>
    ELSE IF Len(list) = 1 THEN Head(list)
    ELSE Head(list) \o <<NL>> \o JoinLines(Tail(list))

\* add_phrases putting a new phrase before the phrases merged so far
RECURSIVE add_phrases_front(_, _)
add_phrases_front(merged_phrases, phrases) ==
    IF phrases = <<>> THEN merged_phrases
    ELSE LET phrase == Head(phrases)
             seen_phrases == {<<merged_phrases[i].text, merged_phrases[i].is_financial>> :
                                 i \in 1..Len(merged_phrases)}
         IN  IF <<phrase.text, phrase.is_financial>> \notin seen_phrases
             THEN add_phrases_front(<<phrase>> \o merged_phrases, Tail(phrases))
             ELSE add_phrases_front(merged_phrases, Tail(phrases))

\* add_phrases without the seen_phrases test
add_phrases_all(merged_phrases, phrases) == merged_phrases \o phrases

\* the inner loop over cat_data['quoted_phrases']: a phrase is appended unless
\* its (text, is_financial) pair is already in the merged list
RECURSIVE add_phrases(_, _)
add_phrases(merged_phrases, phrases) ==
    IF phrases = <<>> THEN merged_phrases
    ELSE LET phrase == Head(phrases)
             seen_phrases == {<<merged_phrases[i].text, merged_phrases[i].is_financial>> :
                                 i \in 1..Len(merged_phrases)}
         IN  IF <<phrase.text, phrase.is_financial>> \notin seen_phrases
             THEN add_phrases(Append(merged_phrases, phrase), Tail(phrases))
             ELSE add_phrases(merged_phrases, Tail(phrases))

\* merge_category taking the risk level of the chunk it reads, without the
\* comparison of the indexes
RECURSIVE merge_category_last_risk(_, _, _)
merge_category_last_risk(category, results, acc) ==
    IF results = <<>> THEN acc
    ELSE LET result == Head(results)
         IN  IF category \notin DOMAIN result
             THEN merge_category_last_risk(category, Tail(results), acc)
             ELSE LET cat_data == result[category]
                  IN  IF RiskIndex(cat_data.risk_level) = 0
                      THEN [acc EXCEPT !.raised = TRUE]
                      ELSE merge_category_last_risk(category, Tail(results),
                             [risk_level |-> cat_data.risk_level,
                              findings |->
                                  IF /\ cat_data.findings # NoSpecificFindings
                                     /\ cat_data.findings # NotMentioned
                                  THEN Append(acc.findings, cat_data.findings)
                                  ELSE acc.findings,
                              quoted_phrases |->
                                  add_phrases(acc.quoted_phrases, cat_data.quoted_phrases),
                              raised |-> FALSE])

\* the loop over results_list for one category; raised records the ValueError
\* of risk_levels.index for a risk level that is not in risk_levels
RECURSIVE merge_category(_, _, _)
merge_category(category, results, acc) ==
    IF results = <<>> THEN acc
    ELSE LET result == Head(results)
         IN  IF category \notin DOMAIN result
             THEN merge_category(category, Tail(results), acc)
             ELSE LET cat_data == result[category]
                  IN  IF RiskIndex(cat_data.risk_level) = 0
                      THEN [acc EXCEPT !.raised = TRUE]
                      ELSE merge_category(category, Tail(results),
                             [risk_level |->
                                  IF RiskIndex(cat_data.risk_level) > RiskIndex(acc.risk_level)
                                  THEN cat_data.risk_level ELSE acc.risk_level,
                              findings |->
                                  IF /\ cat_data.findings # NoSpecificFindings
                                     /\ cat_data.findings # NotMentioned
                                  THEN Append(acc.findings, cat_data.findings)
                                  ELSE acc.findings,
                              quoted_phrases |->
                                  add_phrases(acc.quoted_phrases, cat_data.quoted_phrases),
                              raised |-> FALSE])

\* merged_category without the default of an empty findings list
merged_category_no_default(category, results_list) ==
    LET m == merge_category(category, results_list,
                            [risk_level |-> "None", findings |-> <<>>,
                             quoted_phrases |-> <<>>, raised |-> FALSE])
    IN  [risk_level |-> m.risk_level,
         findings |-> JoinLines(m.findings),
         quoted_phrases |-> m.quoted_phrases,
         raised |-> m.raised]

merged_category(category, results_list) ==
    LET m == merge_category(category, results_list,
                            [risk_level |-> "None", findings |-> <<>>,
                             quoted_phrases |-> <<>>, raised |-> FALSE])
    IN  [risk_level |-> m.risk_level,
         findings |-> IF m.findings # <<>> THEN JoinLines(m.findings)
                      ELSE NoSpecificFindings,
         quoted_phrases |-> m.quoted_phrases,
         raised |-> m.raised]

\* [raised, value]: raised when the ValueError leaves the function, else value
\* is the returned mapping, the categories and 'metrics'
merge_analysis_results(results_list) ==
    LET by_category == [category \in Categories |->
                            merged_category(category, results_list)]
        merged == [category \in Categories |->
                      [risk_level |-> by_category[category].risk_level,
                       findings |-> by_category[category].findings,
                       quoted_phrases |-> by_category[category].quoted_phrases]]
    IN  IF \E category \in Categories : by_category[category].raised
        THEN [raised |-> TRUE, value |-> <<>>]
        ELSE [raised |-> FALSE,
              value |-> merged @@ ("metrics" :> calculate_metrics(merged))]

----------------------------------------------------------------------------
(* analyze_chunk *)

\* the names analyzer.py binds at module level
ModuleNames == {"anthropic", "os", "st", "re", "Dict", "List", "Any", "langdetect",
                "has_chinese_characters", "detect_language_sections",
                "translate_text", "analyze_document", "chunk_document",
                "analyze_chunk", "process_analysis_response",
                "merge_analysis_results", "ANALYSIS_CATEGORIES",
                "is_financial_term", "calculate_metrics", "risk_levels"}

ApiCallFailed == <<"A", "P", "I", " ", "c", "a", "l", "l", " ", "f", "a", "i", "l", "e", "d">>
InvalidResponse == <<"I", "n", "v", "a", "l", "i", "d", " ", "r", "e", "s", "p", "o", "n", "s", "e">>
AnalysisFailed == <<"A", "n", "a", "l", "y", "s", "i", "s", " ", "f", "a", "i", "l", "e", "d">>

\* the error mapping built over the first category alone
error_result_first_category(findings) ==
    [category \in {ANALYSIS_CATEGORIES[1]} |->
        [risk_level |-> "Error", findings |-> findings, quoted_phrases |-> <<>>]]

\* {cat: {'risk_level': 'Error', 'findings': findings, 'quoted_phrases': []} ...}
error_result(findings) ==
    [category \in Categories |->
        [risk_level |-> "Error", findings |-> findings, quoted_phrases |-> <<>>]]

\* The outcomes of client.messages.create: the call raises, the response has no
\* content, or it carries the text content.
\* On the last path the metadata is built with detect_language, a name the
\* module does not bind: the NameError is caught by the outer except.
analyze_chunk(t, outcome) ==
    IF outcome.kind = "raise" THEN error_result(ApiCallFailed)
    ELSE IF outcome.kind = "empty" THEN error_result(InvalidResponse)
    ELSE LET analysis_results == process_analysis_response(outcome.content)
         IN  IF "detect_language" \in ModuleNames
             THEN analysis_results @@ ("metadata" :> [length |-> Len(t)])
             ELSE error_result(AnalysisFailed)

----------------------------------------------------------------------------
(* Specification of chunk_document over all short texts *)

TextAlphabet == {"a", NL}

\* the value of a variable an operation does not use
Unused == <<>>

InitChunk ==
    /\ pc = "start"
    /\ phrase_in = Unused /\ financial = Unused /\ outcome_in = Unused
    /\ chunk_out = Unused /\ merge_how = Unused
    /\ text \in StringsUpTo(TextAlphabet, MaxTextLen)
    /\ chunk_size \in 0..MaxChunkSize
    /\ chunks = <<>>
    /\ response_text = Unused /\ parsed = Unused /\ responses = Unused
    /\ merge_in = Unused /\ merge_out = Unused
    /\ metrics_in = Unused /\ metrics = Unused
    /\ all_results = Unused /\ calls = Unused /\ returned = Unused

ChunkDocument ==
    /\ pc = "start"
    /\ chunks' = chunk_document(text, chunk_size)
    /\ pc' = "done"
    /\ UNCHANGED <<phrase_in, financial, outcome_in, chunk_out, merge_how>>
    /\ UNCHANGED <<text, chunk_size, response_text, parsed, responses, merge_in,
                   merge_out, metrics_in, metrics, all_results, calls, returned>>

NextChunk == ChunkDocument

SpecChunk == InitChunk /\ [][NextChunk]_vars

----------------------------------------------------------------------------
(* Specification of process_analysis_response over response texts *)

MarkerPayment == <<"#", "#", "#", "P", "a", "y", "m", "e", "n", "t", " ", "T", "e", "r", "m", "s", "#", "#", "#">>
MarkerForce == <<"#", "#", "#", "F", "o", "r", "c", "e", " ", "M", "a", "j", "e", "u", "r", "e", "#", "#", "#">>

\* the first and the second response of the two-chunk scenario
ScenarioResponse1 == <<"#", "#", "#", "P", "a", "y", "m", "e", "n", "t", " ", "T", "e", "r", "m", "s", "#", "#", "#", " ", "R", "I", "S", "K", ":", " ", "H", "i", "g", "h", " ", "F", "I", "N", "D", "I", "N", "G", "S", ":", " ", ".", ".", ".", " ", "Q", "U", "O", "T", "E", "S", ":", " ", DQ, "f", "e", "e", " ", "o", "f", " ", "$", "5", "0", DQ>>
ScenarioResponse2 == <<"#", "#", "#", "P", "a", "y", "m", "e", "n", "t", " ", "T", "e", "r", "m", "s", "#", "#", "#", " ", "R", "I", "S", "K", ":", " ", "L", "o", "w", " ", "F", "I", "N", "D", "I", "N", "G", "S", ":", " ", "n", "o", "n", "e", " ", "Q", "U", "O", "T", "E", "S", ":">>

\* what a response text is made of: well-formed markers, the bare delimiter, a
\* stray '#', a bare category name, and the fields of a block
ResponsePieces == {MarkerPayment, MarkerForce, Hashes, <<"#">>,
                   <<"P", "a", "y", "m", "e", "n", "t", " ", "T", "e", "r", "m", "s">>,
                   <<NL, "R", "I", "S", "K", ":", " ", "M", "e", "d", "i", "u", "m", NL, "F", "I", "N", "D", "I", "N", "G", "S", ":", " ", "o", "d", "d", " ", "t", "e", "r", "m", "s", NL>>,
                   <<"Q", "U", "O", "T", "E", "S", ":", " ", DQ, "l", "a", "t", "e", " ", "f", "e", "e", DQ, NL, DQ, "o", "k", DQ, NL>>,
                   <<"R", "I", "S", "K", ":", " ", "H", "i", "g", "h", "e", "s", "t", " ", "F", "I", "N", "D", "I", "N", "G", "S", ":", "Q", "U", "O", "T", "E", "S", ":">>}

\* the concatenations of at most n pieces
RECURSIVE PieceStrings(_)
PieceStrings(n) ==
    IF n = 0 THEN {<<>>}
    ELSE LET shorter == PieceStrings(n - 1)
         IN  shorter \cup {s \o p : s \in shorter, p \in ResponsePieces}

ResponseTexts == PieceStrings(MaxPieces) \cup {ScenarioResponse1, ScenarioResponse2}

InitParse ==
    /\ pc = "start"
    /\ phrase_in = Unused /\ financial = Unused /\ outcome_in = Unused
    /\ chunk_out = Unused /\ merge_how = Unused
    /\ response_text \in ResponseTexts
    /\ parsed = <<>>
    /\ text = Unused /\ chunk_size = 0 /\ chunks = Unused /\ responses = Unused
    /\ merge_in = Unused /\ merge_out = Unused
    /\ metrics_in = Unused /\ metrics = Unused
    /\ all_results = Unused /\ calls = Unused /\ returned = Unused

ProcessAnalysisResponse ==
    /\ pc = "start"
    /\ parsed' = process_analysis_response(response_text)
    /\ pc' = "done"
    /\ UNCHANGED <<phrase_in, financial, outcome_in, chunk_out, merge_how>>
    /\ UNCHANGED <<text, chunk_size, chunks, response_text, responses, merge_in,
                   merge_out, metrics_in, metrics, all_results, calls, returned>>

NextParse == ProcessAnalysisResponse

SpecParse == InitParse /\ [][NextParse]_vars

----------------------------------------------------------------------------
(* Specification of merge_analysis_results over lists of chunk results *)

\* the block of a category in a response
Blocks == {<<" ", "R", "I", "S", "K", ":", " ", "H", "i", "g", "h", " ", "F", "I", "N", "D", "I", "N", "G", "S", ":", " ", ".", ".", ".", " ", "Q", "U", "O", "T", "E", "S", ":", " ", DQ, "f", "e", "e", " ", "o", "f", " ", "$", "5", "0", DQ>>,
           <<" ", "R", "I", "S", "K", ":", " ", "L", "o", "w", " ", "F", "I", "N", "D", "I", "N", "G", "S", ":", " ", "n", "o", "n", "e", " ", "Q", "U", "O", "T", "E", "S", ":">>,
           <<NL, "R", "I", "S", "K", ":", " ", "M", "e", "d", "i", "u", "m", NL, "Q", "U", "O", "T", "E", "S", ":", " ", DQ, "o", "k", DQ, " ", DQ, "o", "k", DQ, NL, DQ, "v", "o", "i", "d", DQ>>}

\* a response: for each category in list order, no block or its marker and a block
CategoryParts(marker) == {<<>>} \cup {marker \o b : b \in Blocks}

MergeResponses ==
    {p \o f : p \in CategoryParts(MarkerPayment), f \in CategoryParts(MarkerForce)}

\* a chunk whose LLM call failed has no response text
Failed == [ok |-> FALSE, text |-> <<>>]

Answered(t) == [ok |-> TRUE, text |-> t]

\* the result analyze_chunk is written to return for a chunk: the parsed
\* response, or the Error entries of a failed call
chunk_result(response) ==
    IF ~response.ok THEN error_result(ApiCallFailed)
    ELSE process_analysis_response(response.text)

SeqsUpTo(S, n) == UNION {[1..k -> S] : k \in 1..n}

InitMerge ==
    /\ pc = "start"
    /\ phrase_in = Unused /\ financial = Unused /\ outcome_in = Unused
    /\ chunk_out = Unused /\ merge_how = Unused
    /\ responses \in SeqsUpTo({Answered(t) : t \in MergeResponses} \cup {Failed},
                            MaxChunks)
    /\ merge_in = [k \in 1..Len(responses) |-> chunk_result(responses[k])]
    /\ merge_out = <<>>
    /\ text = Unused /\ chunk_size = 0 /\ chunks = Unused
    /\ response_text = Unused /\ parsed = Unused
    /\ metrics_in = Unused /\ metrics = Unused
    /\ all_results = Unused /\ calls = Unused /\ returned = Unused

MergeAnalysisResults ==
    /\ pc = "start"
    /\ merge_out' = merge_analysis_results(merge_in)
    /\ pc' = "done"
    /\ UNCHANGED <<phrase_in, financial, outcome_in, chunk_out, merge_how>>
    /\ UNCHANGED <<text, chunk_size, chunks, response_text, parsed, responses,
                   merge_in, metrics_in, metrics, all_results, calls, returned>>

NextMerge == MergeAnalysisResults

SpecMerge == InitMerge /\ [][NextMerge]_vars

----------------------------------------------------------------------------
(* Specification of calculate_metrics over merged results *)

PhraseTexts == {<<"l", "a", "t", "e", " ", "f", "e", "e">>, <<"o", "k">>, <<"v", "o", "i", "d">>}

Phrases == {[text |-> t, is_financial |-> is_financial_term(t)] : t \in PhraseTexts}

\* the phrase lists a merged entry can hold: no pair twice
PhraseLists ==
    {q \in UNION {[1..k -> Phrases] : k \in 0..MaxPhrases} :
        \A i, j \in 1..Len(q) : i # j => q[i] # q[j]}

MergedEntries ==
    {[risk_level |-> risk_levels[r], findings |-> NoSpecificFindings,
      quoted_phrases |-> q] : r \in 1..Len(risk_levels), q \in PhraseLists}

InitMetrics ==
    /\ pc = "start"
    /\ phrase_in = Unused /\ financial = Unused /\ outcome_in = Unused
    /\ chunk_out = Unused /\ merge_how = Unused
    /\ metrics_in \in [Categories -> MergedEntries]
    /\ metrics = <<>>
    /\ text = Unused /\ chunk_size = 0 /\ chunks = Unused
    /\ response_text = Unused /\ parsed = Unused /\ responses = Unused
    /\ merge_in = Unused /\ merge_out = Unused
    /\ all_results = Unused /\ calls = Unused /\ returned = Unused

CalculateMetrics ==
    /\ pc = "start"
    /\ metrics' = calculate_metrics(metrics_in)
    /\ pc' = "done"
    /\ UNCHANGED <<phrase_in, financial, outcome_in, chunk_out, merge_how>>
    /\ UNCHANGED <<text, chunk_size, chunks, response_text, parsed, responses,
                   merge_in, merge_out, metrics_in, all_results, calls, returned>>

NextMetrics == CalculateMetrics

SpecMetrics == InitMetrics /\ [][NextMetrics]_vars

----------------------------------------------------------------------------
(* Specification of analyze_document *)

\* len(text) > 8000
LongDocument == 8000

\* the default of chunk_size
DefaultChunkSize == 8000

\* the paragraph lengths of the documents of the model
DocParaLens == {0, 3000, 5000, 8500}

Paragraph(n) == [i \in 1..n |-> "a"]

\* '\n\n'.join(paragraphs)
RECURSIVE JoinParagraphs(_)
JoinParagraphs(ps) ==
    IF ps = <<>> THEN <<>>
    ELSE IF Len(ps) = 1 THEN Head(ps)
    ELSE Head(ps) \o ParaSep \o JoinParagraphs(Tail(ps))

DocTexts ==
    {JoinParagraphs([k \in 1..Len(ls) |-> Paragraph(ls[k])]) :
        ls \in SeqsUpTo(DocParaLens, MaxDocParas)}

\* what client.messages.create can do
Outcomes == {[kind |-> "raise"], [kind |-> "empty"],
             [kind |-> "text", content |-> ScenarioResponse1],
             [kind |-> "text", content |-> ScenarioResponse2]}

Init ==
    /\ pc = "start"
    /\ phrase_in = Unused /\ financial = Unused /\ outcome_in = Unused
    /\ chunk_out = Unused /\ merge_how = Unused
    /\ text \in DocTexts
    /\ chunks = <<>>
    /\ all_results = <<>>
    /\ calls = <<>>
    /\ returned = <<>>
    /\ chunk_size = DefaultChunkSize
    /\ response_text = Unused /\ parsed = Unused /\ responses = Unused
    /\ merge_in = Unused /\ merge_out = Unused
    /\ metrics_in = Unused /\ metrics = Unused

\* is_long_document and, for a long document, chunk_document(text)
Start ==
    /\ pc = "start"
    /\ IF Len(text) > LongDocument
       THEN /\ chunks' = chunk_document(text, chunk_size)
            /\ pc' = "loop"
       ELSE /\ chunks' = chunks
            /\ pc' = "single"
    /\ UNCHANGED <<phrase_in, financial, outcome_in, chunk_out, merge_how>>
    /\ UNCHANGED <<text, chunk_size, response_text, parsed, responses, merge_in,
                   merge_out, metrics_in, metrics, all_results, calls, returned>>

\* the loop taking the chunks from the last to the first
ProcessChunk_backwards ==
    /\ pc = "loop"
    /\ Len(all_results) < Len(chunks)
    /\ \E outcome \in Outcomes :
        LET i == Len(chunks) - Len(all_results)
        IN  /\ calls' = Append(calls, [chunk |-> i, kind |-> outcome.kind])
            /\ all_results' = Append(all_results, analyze_chunk(chunks[i], outcome))
    /\ UNCHANGED <<phrase_in, financial, outcome_in, chunk_out, merge_how>>
    /\ UNCHANGED <<pc, text, chunk_size, chunks, response_text, parsed, responses,
                   merge_in, merge_out, metrics_in, metrics, returned>>

\* one turn of the loop over chunks: analyze_chunk(chunk), with its LLM call,
\* and all_results.append
ProcessChunk ==
    /\ pc = "loop"
    /\ Len(all_results) < Len(chunks)
    /\ \E outcome \in Outcomes :
        LET i == Len(all_results) + 1
        IN  /\ calls' = Append(calls, [chunk |-> i, kind |-> outcome.kind])
            /\ all_results' = Append(all_results, analyze_chunk(chunks[i], outcome))
    /\ UNCHANGED <<phrase_in, financial, outcome_in, chunk_out, merge_how>>
    /\ UNCHANGED <<pc, text, chunk_size, chunks, response_text, parsed, responses,
                   merge_in, merge_out, metrics_in, metrics, returned>>

\* after the loop: merge_analysis_results(all_results) and the return, or the
\* exception of the merge leaving analyze_document
MergeAndReturn ==
    /\ pc = "loop"
    /\ Len(all_results) = Len(chunks)
    /\ LET m == merge_analysis_results(all_results)
       IN  IF m.raised
           THEN /\ pc' = "raised"
                /\ returned' = returned
           ELSE /\ pc' = "done"
                /\ returned' = m.value
    /\ UNCHANGED <<phrase_in, financial, outcome_in, chunk_out, merge_how>>
    /\ UNCHANGED <<text, chunk_size, chunks, response_text, parsed, responses,
                   merge_in, merge_out, metrics_in, metrics, all_results, calls>>

\* the else branch: results = analyze_chunk(text), returned as it is
AnalyzeSingle ==
    /\ pc = "single"
    /\ \E outcome \in Outcomes :
        /\ calls' = Append(calls, [chunk |-> 1, kind |-> outcome.kind])
        /\ returned' = analyze_chunk(text, outcome)
    /\ pc' = "done"
    /\ UNCHANGED <<phrase_in, financial, outcome_in, chunk_out, merge_how>>
    /\ UNCHANGED <<text, chunk_size, chunks, response_text, parsed, responses,
                   merge_in, merge_out, metrics_in, metrics, all_results>>

Next == Start \/ ProcessChunk \/ MergeAndReturn \/ AnalyzeSingle

Spec == Init /\ [][Next]_vars

----------------------------------------------------------------------------
(* Properties of chunk_document *)

\* the paragraphs a returned chunk holds: the chunk without the separator
\* appended after its last paragraph, split on the paragraph delimiter; the
\* empty chunk holds none
ChunkParagraphs(c) ==
    IF c = <<>> THEN <<>>
    ELSE IF Len(c) >= 2 /\ StartsWithAt(c, Len(c) - 1, ParaSep)
         THEN Split(SubSeq(c, 1, Len(c) - 2), ParaSep)
         ELSE Split(c, ParaSep)

RECURSIVE AllChunkParagraphs(_)
AllChunkParagraphs(cs) ==
    IF cs = <<>> THEN <<>>
    ELSE ChunkParagraphs(Head(cs)) \o AllChunkParagraphs(Tail(cs))

\* C7: the paragraphs of the returned chunks, read in chunk order, are the
\* paragraphs of the text in their order: none dropped, duplicated or moved.
C7_ChunkCoverage ==
    pc = "done" => AllChunkParagraphs(chunks) = Split(text, ParaSep)

\* a text of three paragraphs, one of them empty, cut into several chunks
C7_Witness ==
    /\ pc = "done"
    /\ Len(Split(text, ParaSep)) >= 3
    /\ \E k \in 1..Len(Split(text, ParaSep)) : Split(text, ParaSep)[k] = <<>>
    /\ Len(chunks) >= 2
    /\ \E k \in 1..Len(chunks) : Len(ChunkParagraphs(chunks[k])) >= 2

AllParagraphsShorter ==
    \A k \in 1..Len(Split(text, ParaSep)) : Len(Split(text, ParaSep)[k]) < chunk_size

\* C8: when every paragraph is shorter than chunk_size, no returned chunk is
\* longer than chunk_size.
C8_ChunkBound ==
    (pc = "done" /\ AllParagraphsShorter)
        => \A k \in 1..Len(chunks) : Len(chunks[k]) <= chunk_size

----------------------------------------------------------------------------
(* Properties of process_analysis_response *)

EntryFields == {"risk_level", "findings", "quoted_phrases"}

Marker(category) == Hashes \o CategoryChars(category) \o Hashes

\* C1: for any response text the returned mapping has an entry, with its three
\* fields, for every category of ANALYSIS_CATEGORIES and for nothing else.
C1_ParserTotal ==
    pc = "done" =>
        /\ DOMAIN parsed = Categories
        /\ \A category \in Categories : DOMAIN parsed[category] = EntryFields

\* the empty response, and a response with delimiters but no marker at all
C1_Witness ==
    /\ pc = "done"
    /\ \A category \in Categories : ~Contains(response_text, Marker(category))
    /\ Contains(response_text, Hashes)
    /\ Contains(response_text, LabelRisk)
    /\ DOMAIN parsed = Categories

DefaultEntry ==
    [risk_level |-> "None", findings |-> NotMentioned, quoted_phrases |-> <<>>]

\* C10: a category whose marker ###<CategoryName>### does not occur in the
\* response gets the default entry, whatever else the response holds.
C10_AbsentMarkerDefault ==
    pc = "done" =>
        \A category \in Categories :
            ~Contains(response_text, Marker(category))
                => parsed[category] = DefaultEntry

\* a response with the bare name "Payment Terms", a block and the marker of the
\* other category, but without the marker of "Payment Terms"
C10_Witness ==
    /\ pc = "done"
    /\ ~Contains(response_text, Marker("Payment Terms"))
    /\ Contains(response_text, CategoryChars("Payment Terms"))
    /\ Contains(response_text, LabelRisk)
    /\ Contains(response_text, Marker("Force Majeure"))
    /\ parsed["Payment Terms"] = DefaultEntry
    /\ parsed["Force Majeure"] # DefaultEntry

----------------------------------------------------------------------------
(* Properties of merge_analysis_results *)

ValidLevels == {"None", "Low", "Medium", "High"}

\* the order None < Low < Medium < High
RiskRank(level) ==
    CASE level = "None" -> 0
      [] level = "Low" -> 1
      [] level = "Medium" -> 2
      [] level = "High" -> 3

AllLevelsValid ==
    \A k \in 1..Len(merge_in) : \A category \in Categories :
        merge_in[k][category].risk_level \in ValidLevels

AllAnswered == \A k \in 1..Len(responses) : responses[k].ok

\* C3: when every chunk risk level is one of None, Low, Medium, High, the merged
\* risk level of each category is the maximum of the chunks' levels for it.
C3_MergedRiskIsMax ==
    (pc = "done" /\ AllLevelsValid) =>
        /\ ~merge_out.raised
        /\ \A category \in Categories :
             LET levels == {merge_in[k][category].risk_level : k \in 1..Len(merge_in)}
                 got == merge_out.value[category].risk_level
             IN  /\ got \in levels
                 /\ \A level \in levels : RiskRank(level) <= RiskRank(got)

\* one chunk says High and another says None for the same category
C3_Witness ==
    /\ pc = "done"
    /\ AllLevelsValid
    /\ \E category \in Categories : \E j, k \in 1..Len(merge_in) :
          /\ merge_in[j][category].risk_level = "None"
          /\ merge_in[k][category].risk_level = "High"
          /\ j < k
          /\ merge_out.value[category].risk_level = "High"

\* the default findings strings become "No specific findings."
NormalisedFindings(findings) ==
    IF findings \in {NoSpecificFindings, NotMentioned} THEN NoSpecificFindings
    ELSE findings

\* q with every repetition of an earlier element removed
RECURSIVE FirstOccurrences(_)
FirstOccurrences(q) ==
    IF q = <<>> THEN <<>>
    ELSE LET front == SubSeq(q, 1, Len(q) - 1)
             last == q[Len(q)]
         IN  IF \E i \in 1..Len(front) : front[i] = last
             THEN FirstOccurrences(front)
             ELSE Append(FirstOccurrences(front), last)

SingleParsedResult == pc = "done" /\ Len(responses) = 1 /\ responses[1].ok

\* C4 as stated: merging the single parsed result r returns r, but for the
\* normalisation of a default findings string.
C4_MergeSingleUnchanged ==
    SingleParsedResult =>
        /\ ~merge_out.raised
        /\ \A category \in Categories :
             merge_out.value[category] =
                 [merge_in[1][category] EXCEPT !.findings = NormalisedFindings(@)]

\* C4, amended: merging the single parsed result r returns, for every category,
\* r's risk level, r's findings with a default string normalised, and r's quoted
\* phrases without the repetitions of a (text, is_financial) pair; the mapping
\* holds the categories and the metrics entry.
C4_MergeSingleDeduplicated ==
    SingleParsedResult =>
        /\ ~merge_out.raised
        /\ DOMAIN merge_out.value = Categories \cup {"metrics"}
        /\ \A category \in Categories :
             merge_out.value[category] =
                 [merge_in[1][category] EXCEPT
                     !.findings = NormalisedFindings(@),
                     !.quoted_phrases = FirstOccurrences(@)]

\* a single result one of whose categories quotes the same phrase twice, and
\* whose other category has findings of its own
C4_Witness ==
    /\ SingleParsedResult
    /\ \E category \in Categories :
          LET q == merge_in[1][category].quoted_phrases
          IN  /\ \E i, j \in 1..Len(q) : i < j /\ q[i] = q[j]
              /\ Len(merge_out.value[category].quoted_phrases) < Len(q)
    /\ \E category \in Categories :
          /\ merge_in[1][category].findings \notin {NoSpecificFindings, NotMentioned}
          /\ merge_out.value[category].findings = merge_in[1][category].findings

\* the marker of the category occurs in no chunk response
MentionedNowhere(category) ==
    \A k \in 1..Len(responses) : ~Contains(responses[k].text, Marker(category))

\* C5 as stated: after the merge of parsed chunk results every category has its
\* entry, and a category no response mentions has the entry with the findings
\* "Not mentioned in document.".
C5_UnmentionedNotMentioned ==
    (pc = "done" /\ AllAnswered) =>
        /\ ~merge_out.raised
        /\ Categories \subseteq DOMAIN merge_out.value
        /\ \A category \in Categories :
             MentionedNowhere(category) => merge_out.value[category] = DefaultEntry

\* C5, amended: after the merge of parsed chunk results the mapping holds one
\* entry per category (and the metrics entry), and a category no response
\* mentions has risk level None, the findings "No specific findings." and no
\* quoted phrase.
C5_UnmentionedNoFindings ==
    (pc = "done" /\ AllAnswered) =>
        /\ ~merge_out.raised
        /\ DOMAIN merge_out.value = Categories \cup {"metrics"}
        /\ \A category \in Categories :
             MentionedNowhere(category) =>
                 merge_out.value[category] =
                     [risk_level |-> "None", findings |-> NoSpecificFindings,
                      quoted_phrases |-> <<>>]

\* two responses, neither mentions "Force Majeure", one mentions "Payment Terms"
C5_Witness ==
    /\ pc = "done"
    /\ AllAnswered
    /\ Len(responses) = 2
    /\ MentionedNowhere("Force Majeure")
    /\ ~MentionedNowhere("Payment Terms")
    /\ merge_out.value["Force Majeure"].findings = NoSpecificFindings
    /\ merge_out.value["Payment Terms"].risk_level # "None"

ScenarioPhrase == [text |-> <<"f", "e", "e", " ", "o", "f", " ", "$", "5", "0">>, is_financial |-> TRUE]

TwoChunkScenario ==
    /\ pc = "done"
    /\ responses = <<Answered(ScenarioResponse1), Answered(ScenarioResponse2)>>

\* C9: the two responses of the scenario, parsed and merged, give "Payment
\* Terms" the risk level High and the quoted phrase "fee of $50", financial.
C9_EndToEnd ==
    TwoChunkScenario =>
        /\ ~merge_out.raised
        /\ merge_out.value["Payment Terms"].risk_level = "High"
        /\ \E i \in 1..Len(merge_out.value["Payment Terms"].quoted_phrases) :
              merge_out.value["Payment Terms"].quoted_phrases[i] = ScenarioPhrase

\* the scenario has run: chunk 1 parsed to High with one phrase, chunk 2 to Low
\* with none
C9_Witness ==
    /\ TwoChunkScenario
    /\ merge_in[1]["Payment Terms"].risk_level = "High"
    /\ Len(merge_in[1]["Payment Terms"].quoted_phrases) = 1
    /\ merge_in[2]["Payment Terms"].risk_level = "Low"
    /\ merge_in[2]["Payment Terms"].quoted_phrases = <<>>
    /\ ~merge_out.raised

----------------------------------------------------------------------------
(* Properties of calculate_metrics *)

\* 0 <= (num / den) * 100 <= 100, num already holding the factor 100
InPercentRange(m) == m.den > 0 /\ 0 <= m.num /\ m.num <= 100 * m.den

\* C6: the three metrics of a merged result lie between 0 and 100.
C6_MetricsInRange ==
    pc = "done" =>
        /\ InPercentRange(metrics.complexity_score)
        /\ InPercentRange(metrics.financial_impact)
        /\ InPercentRange(metrics.unusual_terms_ratio)

----------------------------------------------------------------------------
(* Properties of analyze_document *)

SomeCallFailed == \E k \in 1..Len(calls) : calls[k].kind \in {"raise", "empty"}

\* C2: in a multi-chunk analysis a failed LLM call does not abort the run:
\* analyze_document does not raise.
C2_FailedCallDoesNotAbort ==
    (Len(chunks) >= 2 /\ SomeCallFailed) => pc # "raised"

----------------------------------------------------------------------------
(* More properties of chunk_document *)

\* C11 as stated: the empty text gives exactly one chunk, the text itself, and
\* every text gives at least one chunk.
C11_EmptyTextOneChunk ==
    pc = "done" =>
        /\ Len(chunks) >= 1
        /\ text = <<>> => chunks = <<text>>

\* C11, amended: every text gives at least one chunk; the empty text gives the
\* one chunk '\n\n', the separator appended to its only (empty) paragraph, and
\* with a chunk_size of 0 an empty chunk before it.
C11_EmptyTextSeparatorChunk ==
    pc = "done" =>
        /\ Len(chunks) >= 1
        /\ (text = <<>> /\ chunk_size >= 1) => chunks = <<ParaSep>>
        /\ (text = <<>> /\ chunk_size = 0) => chunks = <<<<>>, ParaSep>>

\* the empty text chunked with a positive chunk_size
C11_Witness ==
    /\ pc = "done"
    /\ text = <<>>
    /\ chunk_size >= 1
    /\ Len(chunks) = 1
    /\ chunks[1] # text

TextParagraphs == Split(text, ParaSep)

\* C16: a paragraph longer than chunk_size is the whole content of a chunk: no
\* chunk holds it together with another paragraph, and none holds a part of it.
C16_OversizedAlone ==
    pc = "done" =>
        /\ \A i \in 1..Len(TextParagraphs) :
              Len(TextParagraphs[i]) > chunk_size
                  => \E k \in 1..Len(chunks) : chunks[k] = TextParagraphs[i] \o ParaSep
        /\ \A k \in 1..Len(chunks) :
              LET held == ChunkParagraphs(chunks[k])
              IN  (\E j \in 1..Len(held) : Len(held[j]) > chunk_size) => Len(held) = 1

\* an oversized paragraph between two paragraphs that are not oversized
C16_Witness ==
    /\ pc = "done"
    /\ Len(TextParagraphs) = 3
    /\ Len(TextParagraphs[1]) <= chunk_size
    /\ TextParagraphs[1] # <<>>
    /\ Len(TextParagraphs[2]) > chunk_size
    /\ Len(TextParagraphs[3]) <= chunk_size
    /\ \E k \in 1..Len(chunks) : chunks[k] = TextParagraphs[2] \o ParaSep

----------------------------------------------------------------------------
(* is_financial_term on its own: a phrase in, a flag out *)

MaxPhraseLen == 4

\* letters of the keywords 'fee' and 'pay' in both cases, a currency symbol and
\* a digit
PhraseAlphabet == {"f", "e", "E", "p", "a", "Y", "$", "5"}

InitFinancial ==
    /\ pc = "start"
    /\ phrase_in \in StringsUpTo(PhraseAlphabet, MaxPhraseLen)
    /\ financial = Unused /\ outcome_in = Unused
    /\ chunk_out = Unused /\ merge_how = Unused
    /\ text = Unused /\ chunk_size = 0 /\ chunks = Unused
    /\ response_text = Unused /\ parsed = Unused
    /\ responses = Unused /\ merge_in = Unused /\ merge_out = Unused
    /\ metrics_in = Unused /\ metrics = Unused
    /\ all_results = Unused /\ calls = Unused /\ returned = Unused

IsFinancialTerm ==
    /\ pc = "start"
    /\ financial' = is_financial_term(phrase_in)
    /\ pc' = "done"
    /\ UNCHANGED <<phrase_in, outcome_in, chunk_out, merge_how>>
    /\ UNCHANGED <<text, chunk_size, chunks, response_text, parsed, responses,
                   merge_in, merge_out, metrics_in, metrics, all_results, calls,
                   returned>>

NextFinancial == IsFinancialTerm

SpecFinancial == InitFinancial /\ [][NextFinancial]_vars

\* the eighteen keywords the description of is_financial_term lists
ListedKeywords == {
    <<"f", "e", "e">>, <<"c", "o", "s", "t">>, <<"p", "r", "i", "c", "e">>,
    <<"p", "a", "y", "m", "e", "n", "t">>, <<"c", "h", "a", "r", "g", "e">>,
    <<"r", "e", "f", "u", "n", "d">>, <<"c", "r", "e", "d", "i", "t">>,
    <<"b", "i", "l", "l", "i", "n", "g">>,
    <<"s", "u", "b", "s", "c", "r", "i", "p", "t", "i", "o", "n">>,
    <<"m", "o", "n", "e", "y">>,
    <<"f", "i", "n", "a", "n", "c", "i", "a", "l">>,
    <<"d", "o", "l", "l", "a", "r">>, <<"r", "a", "t", "e">>,
    <<"e", "x", "p", "e", "n", "s", "e">>, <<"p", "a", "y">>,
    <<"c", "o", "m", "p", "e", "n", "s", "a", "t", "i", "o", "n">>,
    <<"p", "e", "n", "a", "l", "t", "y">>, <<"f", "i", "n", "e">>}

CurrencySymbols == {<<"$">>}

\* the two characters are the same letter, whatever their case, or the same
\* character
SameIgnoringCase(c, d) ==
    \/ c = d
    \/ \E k \in 1..26 : {c, d} = {UpperCase[k], LowerCase[k]}

\* keyword occurs in phrase at some position, the case of letters ignored
ContainsIgnoringCase(phrase, keyword) ==
    \E i \in 1..(Len(phrase) - Len(keyword) + 1) :
        \A j \in 1..Len(keyword) : SameIgnoringCase(phrase[i + j - 1], keyword[j])

\* C12 as stated: the flag is true exactly when the phrase contains, the case
\* ignored, a listed keyword or a currency symbol; so "$50" is financial.
C12_KeywordOrCurrencySymbol ==
    pc = "done" =>
        (financial <=> \E keyword \in ListedKeywords \cup CurrencySymbols :
                           ContainsIgnoringCase(phrase_in, keyword))

\* C12, amended: the flag is true exactly when the phrase contains, the case
\* ignored, one of the eighteen listed keywords; a currency symbol is no
\* keyword, so a phrase such as "$5" with no keyword in it is not financial.
C12_KeywordOnly ==
    pc = "done" =>
        /\ financial <=> \E keyword \in ListedKeywords :
                             ContainsIgnoringCase(phrase_in, keyword)
        /\ phrase_in = <<"$", "5">> => ~financial

\* a phrase with a keyword in mixed case is financial, beside a currency symbol
C12_Witness ==
    /\ pc = "done"
    /\ phrase_in = <<"$", "f", "E", "e">>
    /\ financial

----------------------------------------------------------------------------
(* analyze_chunk on its own: one chunk, one outcome of the call *)

ChunkTexts == {<<>>, <<"a">>, <<"a", NL, NL, "a">>}

\* what client.messages.create can do: raise, answer without content, or
\* answer with a text (the empty text included)
ChunkOutcomes ==
    {[kind |-> "raise"], [kind |-> "empty"]}
        \cup {[kind |-> "text", content |-> c] :
                 c \in PieceStrings(MaxPieces - 1)
                           \cup {ScenarioResponse1, ScenarioResponse2}}

InitAnalyzeChunk ==
    /\ pc = "start"
    /\ text \in ChunkTexts
    /\ outcome_in \in ChunkOutcomes
    /\ chunk_out = Unused
    /\ phrase_in = Unused /\ financial = Unused /\ merge_how = Unused
    /\ chunk_size = 0 /\ chunks = Unused
    /\ response_text = Unused /\ parsed = Unused
    /\ responses = Unused /\ merge_in = Unused /\ merge_out = Unused
    /\ metrics_in = Unused /\ metrics = Unused
    /\ all_results = Unused /\ calls = Unused /\ returned = Unused

AnalyzeChunk ==
    /\ pc = "start"
    /\ chunk_out' = analyze_chunk(text, outcome_in)
    /\ pc' = "done"
    /\ UNCHANGED <<phrase_in, financial, outcome_in, merge_how>>
    /\ UNCHANGED <<text, chunk_size, chunks, response_text, parsed, responses,
                   merge_in, merge_out, metrics_in, metrics, all_results, calls,
                   returned>>

NextAnalyzeChunk == AnalyzeChunk

SpecAnalyzeChunk == InitAnalyzeChunk /\ [][NextAnalyzeChunk]_vars

CallFailed == outcome_in.kind \in {"raise", "empty"}

\* C13: when the call raises or the response has no content, analyze_chunk
\* returns (it does not raise) a mapping with an entry for every configured
\* category, each with risk_level Error and no quoted phrase.
C13_FailedCallAllError ==
    (pc = "done" /\ CallFailed) =>
        /\ DOMAIN chunk_out = Categories
        /\ \A category \in Categories :
              /\ chunk_out[category].risk_level = "Error"
              /\ chunk_out[category].quoted_phrases = <<>>

\* a response without content for a non-empty chunk
C13_Witness ==
    /\ pc = "done"
    /\ outcome_in.kind = "empty"
    /\ text # <<>>
    /\ \A category \in Categories :
          /\ chunk_out[category].risk_level = "Error"
          /\ chunk_out[category].findings = InvalidResponse

\* C14: when the call succeeds with a non-empty response text, analyze_chunk
\* returns for every configured category the entry process_analysis_response
\* extracts from that text, and no category is an Error entry.
C14_SuccessReturnsParsed ==
    (pc = "done" /\ outcome_in.kind = "text" /\ outcome_in.content # <<>>) =>
        \A category \in Categories :
            /\ category \in DOMAIN chunk_out
            /\ chunk_out[category]
                   = process_analysis_response(outcome_in.content)[category]
            /\ chunk_out[category].risk_level # "Error"

----------------------------------------------------------------------------
(* More properties of merge_analysis_results *)

\* the quoted phrases of the category in all chunk results, in chunk order
AllChunkPhrases(category) ==
    Concat([k \in 1..Len(merge_in) |-> merge_in[k][category].quoted_phrases])

PhrasePair(phrase) == <<phrase.text, phrase.is_financial>>

\* the index of the first phrase of q with the pair of phrase
FirstIndex(q, phrase) ==
    CHOOSE i \in 1..Len(q) :
        /\ PhrasePair(q[i]) = PhrasePair(phrase)
        /\ \A j \in 1..(i - 1) : PhrasePair(q[j]) # PhrasePair(phrase)

\* C17: whenever the merge returns a result, for each category the merged quoted
\* phrases are the union of the chunks'
\* quoted phrases, no (text, is_financial) pair twice, in the order of their
\* first occurrence across the chunks taken in sequence.
C17_PhrasesUnionFirstOccurrence ==
    (pc = "done" /\ ~merge_out.raised) =>
        \A category \in Categories :
            LET got == merge_out.value[category].quoted_phrases
                all == AllChunkPhrases(category)
            IN  /\ {PhrasePair(got[i]) : i \in 1..Len(got)}
                       = {PhrasePair(all[i]) : i \in 1..Len(all)}
                /\ \A i, j \in 1..Len(got) :
                       i # j => PhrasePair(got[i]) # PhrasePair(got[j])
                /\ \A i, j \in 1..Len(got) :
                       i < j => FirstIndex(all, got[i]) < FirstIndex(all, got[j])
                /\ got = FirstOccurrences(all)

\* two chunks: for one category both quote the same phrases, for another the
\* second chunk adds phrases to that of the first
C17_Witness ==
    /\ pc = "done"
    /\ AllLevelsValid
    /\ Len(merge_in) = 2
    /\ \E category \in Categories :
          /\ merge_in[1][category].quoted_phrases # <<>>
          /\ merge_in[1][category].quoted_phrases = merge_in[2][category].quoted_phrases
          /\ Len(merge_out.value[category].quoted_phrases)
                 < Len(merge_in[1][category].quoted_phrases)
    /\ \E category \in Categories :
          /\ Len(merge_in[1][category].quoted_phrases) = 1
          /\ Len(merge_in[2][category].quoted_phrases) = 3
          /\ Len(merge_out.value[category].quoted_phrases) = 3
          /\ merge_out.value[category].quoted_phrases[1]
                 = merge_in[1][category].quoted_phrases[1]

----------------------------------------------------------------------------
(* merge_analysis_results on a list of chunk results, and on the same results
   in another order or with the first of them merged beforehand *)

\* answered responses: any block or none for the first category, one block or
\* none for the second
ReorderResponses ==
    {Answered(p \o f) : p \in CategoryParts(MarkerPayment),
                        f \in {<<>>} \cup {MarkerForce \o b :
                                  b \in {c \in Blocks : Head(c) = NL}}}

InitReorder ==
    /\ pc = "start"
    /\ responses \in SeqsUpTo(ReorderResponses, MaxChunks)
    /\ merge_in = [k \in 1..Len(responses) |-> chunk_result(responses[k])]
    /\ merge_out = <<>>
    /\ merge_how = Unused
    /\ phrase_in = Unused /\ financial = Unused /\ outcome_in = Unused
    /\ chunk_out = Unused
    /\ text = Unused /\ chunk_size = 0 /\ chunks = Unused
    /\ response_text = Unused /\ parsed = Unused
    /\ metrics_in = Unused /\ metrics = Unused
    /\ all_results = Unused /\ calls = Unused /\ returned = Unused

\* merge_analysis_results(results_list) and merge_analysis_results of a
\* permutation of results_list
MergeReordered ==
    /\ pc = "start"
    /\ \E order \in Permutations(1..Len(merge_in)) :
          merge_how' = [kind |-> "reordered",
                        order |-> order,
                        result |-> merge_analysis_results(
                                       [k \in 1..Len(merge_in) |-> merge_in[order[k]]])]
    /\ merge_out' = merge_analysis_results(merge_in)
    /\ pc' = "done"
    /\ UNCHANGED <<phrase_in, financial, outcome_in, chunk_out>>
    /\ UNCHANGED <<text, chunk_size, chunks, response_text, parsed, responses,
                   merge_in, metrics_in, metrics, all_results, calls, returned>>

\* merge_analysis_results(results_list) and
\* merge_analysis_results([merge_analysis_results(results_list[:n])] + results_list[n:])
MergeNested ==
    /\ pc = "start"
    /\ \E n \in 1..Len(merge_in) :
          LET first == merge_analysis_results(SubSeq(merge_in, 1, n))
              further == SubSeq(merge_in, n + 1, Len(merge_in))
          IN  merge_how' = [kind |-> "nested",
                            order |-> n,
                            result |-> IF first.raised THEN first
                                       ELSE merge_analysis_results(
                                                <<first.value>> \o further)]
    /\ merge_out' = merge_analysis_results(merge_in)
    /\ pc' = "done"
    /\ UNCHANGED <<phrase_in, financial, outcome_in, chunk_out>>
    /\ UNCHANGED <<text, chunk_size, chunks, response_text, parsed, responses,
                   merge_in, metrics_in, metrics, all_results, calls, returned>>

NextReorder == MergeReordered \/ MergeNested

SpecReorder == InitReorder /\ [][NextReorder]_vars

PhrasePairs(q) == {PhrasePair(q[i]) : i \in 1..Len(q)}

\* the lines of a findings string, each with the number of times it occurs
LinesOf(findings) ==
    LET lines == Split(findings, <<NL>>)
    IN  [line \in {lines[i] : i \in 1..Len(lines)} |->
            Cardinality({i \in 1..Len(lines) : lines[i] = line})]

BothReturned == pc = "done" /\ ~merge_out.raised /\ ~merge_how.result.raised

\* C18 as stated: merged in another order, or with a part merged beforehand,
\* valid chunk results give for every category the same risk level, the same
\* findings and the same set of quoted phrases.
C18_MergeOrderIndependent ==
    pc = "done" =>
        /\ ~merge_out.raised /\ ~merge_how.result.raised
        /\ \A category \in Categories :
              LET one == merge_out.value[category]
                  other == merge_how.result.value[category]
              IN  /\ other.risk_level = one.risk_level
                  /\ other.findings = one.findings
                  /\ PhrasePairs(other.quoted_phrases) = PhrasePairs(one.quoted_phrases)

\* C18, amended: with a part merged beforehand the result is the same for every
\* category and in its metrics; merged in another order the chunk results give
\* the same risk level and the same set of quoted phrases, and findings made of
\* the same lines, in the order of the chunks as they were given.
C18_MergeAssociativeOrderedFindings ==
    pc = "done" =>
        /\ ~merge_out.raised /\ ~merge_how.result.raised
        /\ merge_how.kind = "nested" => merge_how.result.value = merge_out.value
        /\ \A category \in Categories :
              LET one == merge_out.value[category]
                  other == merge_how.result.value[category]
              IN  /\ other.risk_level = one.risk_level
                  /\ LinesOf(other.findings) = LinesOf(one.findings)
                  /\ PhrasePairs(other.quoted_phrases) = PhrasePairs(one.quoted_phrases)

\* two chunks with findings of their own merged in the other order: the findings
\* lines change places
C18_Witness ==
    /\ BothReturned
    /\ merge_how.kind = "reordered"
    /\ Len(merge_in) = 2
    /\ merge_how.order = <<2, 1>>
    /\ \E category \in Categories :
          /\ merge_how.result.value[category].findings
                 # merge_out.value[category].findings
          /\ merge_how.result.value[category].risk_level = "High"
          /\ merge_in[2][category].risk_level = "Low"

----------------------------------------------------------------------------
(* More properties of analyze_document *)

InLongPath == pc \in {"loop", "raised"} \/ (pc = "done" /\ Len(text) > LongDocument)

\* C19: on a document longer than 8000 characters the k-th LLM call is the call
\* for chunk k, every call made has its result recorded before the next one,
\* there are never more calls than chunks, and the list the merge is given has
\* one result per chunk.
C19_OneCallPerChunkInOrder ==
    InLongPath =>
        /\ Len(text) > LongDocument
        /\ Len(calls) = Len(all_results)
        /\ Len(calls) <= Len(chunks)
        /\ \A k \in 1..Len(calls) : calls[k].chunk = k
        /\ pc \in {"raised", "done"} => Len(all_results) = Len(chunks)

\* a document of four chunks whose merge was reached after calls of each kind
C19_Witness ==
    /\ pc = "raised"
    /\ Len(chunks) >= 3
    /\ Len(calls) = Len(chunks)
    /\ {calls[k].kind : k \in 1..Len(calls)} = {"raise", "empty", "text"}

\* C20: whatever the length of the document, the returned result holds a
\* metrics entry, calculate_metrics of its per-category map.
C20_ReturnedHasMetrics ==
    pc = "done" =>
        /\ "metrics" \in DOMAIN returned
        /\ returned["metrics"]
               = calculate_metrics([category \in Categories |-> returned[category]])

----------------------------------------------------------------------------
(* Empty chunks of chunk_document *)

\* C21: for a non-empty text and any chunk size no returned chunk is empty:
\* each chunk holds at least one paragraph of the text, also when the first
\* paragraph alone is as long as chunk_size or longer.
C21_NoEmptyChunk ==
    (pc = "done" /\ text # <<>>) =>
        \A k \in 1..Len(chunks) :
            /\ chunks[k] # <<>>
            /\ \E i \in 1..Len(TextParagraphs) :
                  \E j \in 1..Len(ChunkParagraphs(chunks[k])) :
                      ChunkParagraphs(chunks[k])[j] = TextParagraphs[i]

====
